---- MODULE Spec2Model ----
(***************************************************************************)
(* emd2mrc: a directory of micrographs is regrouped by data source, each   *)
(* group is ordered by the AlphaTilt angle found in the companion EMD      *)
(* container, stacked and written as one MRC volume (core.py).  A Qt       *)
(* Worker runs the groups one after the other on its own thread while the  *)
(* MainWindow may cancel it (GUI.py).                                      *)
(*                                                                         *)
(* Three specifications share the definitions below:                       *)
(*   Spec      MainWindow + one Worker at a time, a few small groups, the  *)
(*             environment free to make an image unmatched, unreadable or  *)
(*             undecodable, and the user free to cancel at any moment;     *)
(*   SpecMany  one run over ManySources well-formed groups (the progress   *)
(*             arithmetic of Worker.run.progress_cb at scale);             *)
(*   SpecParse extract_alpha_tilt_from_emd's visitor applied to one node   *)
(*             whose text is drawn from a bounded family.                  *)
(***************************************************************************)
EXTENDS Integers, Sequences, FiniteSets, TLC

\* ------------------------------------------------------------------ bounds
MaxSources == 2
MaxFiles == 3
MaxRuns == 2
ManySources == 50
ManyFiles == 2
MaxValLen == 4
MaxSpaces == 1

\* ------------------------------------------------- program constants
HalfRange == 50
FullRange == 100

\* angles the metadata may carry (the spec's end-to-end example: 10, -5, 0)
Angles == {-5, 0, 10}

VARIABLES
  \* MainWindow
  thread,         \* self.thread: "none" | "running"
  listed,         \* list_widget holds the scanned sources
  groupsLoaded,   \* self.groups is non-empty
  nThreads,       \* QThreads started and not yet quit()/wait()ed
  nStarted,       \* Workers created so far
  pending,        \* the Worker's terminal signal queued to the UI thread
  \* Worker
  total_sources,  \* len(self.selected_sources)
  cancel,         \* self._cancel
  pc,             \* position of Worker.run
  i,              \* index of the current selected source
  \* load_images_sorted_by_alpha
  total,          \* len(image_files)
  idx,            \* enumerate index of the first loop
  files,          \* what image_files[0..idx-1] turned out to be
  records,        \* [(alpha, img_path)], img_path as its index in image_files
  j,              \* enumerate index of the second loop
  stack,          \* decoded images, each as its index in image_files
  \* what the run did
  warnings,       \* log_cb warnings of the current call
  prevProgress,   \* the last two values emitted on Worker.progress
  lastProgress,
  finishedCount,  \* Worker.finished emissions
  errorCount,     \* Worker.error emissions
  written,        \* indices of the selected sources whose .mrc was written
  cancelObserved, \* a poll of is_cancelled() returned True
  cancelAt,       \* source being loaded when cancel() was first called, or -1
  \* extract_alpha_tilt_from_emd on one node
  node,           \* one node of the container and its payload
  alpha_tilt,     \* the nonlocal alpha_tilt: [found, num, scale]
  visited

uiVars == <<thread, listed, groupsLoaded, nThreads, nStarted, pending>>
runVars == <<total_sources, cancel, pc, i>>
loadVars == <<total, idx, files, records, j, stack>>
obsVars == <<warnings, prevProgress, lastProgress, finishedCount, errorCount,
             written, cancelObserved, cancelAt>>
parseVars == <<node, alpha_tilt, visited>>
vars == <<uiVars, runVars, loadVars, obsVars, parseVars>>

\* ------------------------------------------------------------- helpers
Min(a, b) == IF a < b THEN a ELSE b
Max(a, b) == IF a > b THEN a ELSE b

(* int(a / b * c) on IEEE-754 doubles.  The quotient a/b is rounded before *)
(* it is multiplied, so for a few operands whose exact result is a whole   *)
(* number the product lands just below it and int() truncates one lower    *)
(* (29/50*100 = 57.99999999999999).  FloatDefects lists every such triple  *)
(* with 0 <= a <= b <= 51, c in {50, 100}, and with b = 100, a, c <= 100;  *)
(* the model only ever evaluates PyTrunc inside that domain.               *)
FloatDefects ==
  { <<29, 50, 50>>, <<29, 50, 100>>, <<29, 100, 100>>, <<57, 100, 100>>,
    <<58, 100, 50>>, <<58, 100, 100>>, <<70, 100, 90>> }

PyTrunc(a, b, c) ==
  ((a * c) \div b) - (IF <<a, b, c>> \in FloatDefects THEN 1 ELSE 0)

\* core.py:98  int((idx + 1) / max(total, 1) * 50)
CollectPercent(k, n) == PyTrunc(k + 1, Max(n, 1), HalfRange)

\* core.py:115  50 + int((j + 1) / max(len(records), 1) * 50)
StackPercent(k, n) == HalfRange + PyTrunc(k + 1, Max(n, 1), HalfRange)

\* GUI.py:52-56  progress_cb(p): the value handed to self.progress.emit
GlobalProgress(p) ==
  LET base == PyTrunc(i, total_sources, FullRange)
      span == PyTrunc(1, total_sources, FullRange)
  IN  Min(FullRange, base + PyTrunc(p, FullRange, span))

\* a sort that puts r before the elements of equal angle (not stable)
Insert_Unstable(s, r) ==
  LET n == Cardinality({k \in 1..Len(s) : s[k][1] < r[1]})
  IN  SubSeq(s, 1, n) \o <<r>> \o SubSeq(s, n + 1, Len(s))

\* records.sort(key=lambda x: x[0]): stable, ascending, only the angles are
\* compared.  r goes after every element whose angle is <= r's angle.
Insert(s, r) ==
  LET n == Cardinality({k \in 1..Len(s) : s[k][1] <= r[1]})
  IN  SubSeq(s, 1, n) \o <<r>> \o SubSeq(s, n + 1, Len(s))

RECURSIVE SortByAlpha(_)
SortByAlpha(s) ==
  IF s = <<>> THEN <<>>
  ELSE Insert(SortByAlpha(SubSeq(s, 1, Len(s) - 1)), s[Len(s)])

\* what one image of the group turns out to be
NoEmd == [kind |-> "noemd", alpha |-> 0]
Unopenable == [kind |-> "unopenable", alpha |-> 0]
NoAngle == [kind |-> "noangle", alpha |-> 0]
Matched(a) == [kind |-> "matched", alpha |-> a]

NoAlpha == [found |-> FALSE, num |-> 0, scale |-> 0]
NoNode ==
  [dataset |-> FALSE, meta |-> FALSE, key |-> <<>>, sp1 |-> 0, sp2 |-> 0,
   quoted |-> FALSE, val |-> <<>>]

\* ---------------------------------------------------------------- Init
IdleRun ==
  /\ total_sources = 0 /\ cancel = FALSE /\ pc = "idle" /\ i = 0
  /\ total = 0 /\ idx = 0 /\ files = <<>> /\ records = <<>> /\ j = 0
  /\ stack = <<>>
  /\ warnings = 0 /\ prevProgress = -1 /\ lastProgress = -1
  /\ finishedCount = 0 /\ errorCount = 0 /\ written = {}
  /\ cancelObserved = FALSE /\ cancelAt = -1

\* MainWindow.__init__
Init ==
  /\ thread = "none" /\ listed = FALSE /\ groupsLoaded = FALSE
  /\ nThreads = 0 /\ nStarted = 0 /\ pending = "none"
  /\ IdleRun
  /\ node = NoNode /\ alpha_tilt = NoAlpha /\ visited = FALSE

\* ---------------------------------------------------------- MainWindow
\* scan_sources
Scan ==
  /\ listed' = TRUE
  /\ groupsLoaded' = TRUE
  /\ UNCHANGED <<thread, nThreads, nStarted, pending>>
  /\ UNCHANGED <<runVars, loadVars, obsVars, parseVars>>

\* start without its guard
ThreadIdle_Always == TRUE

\* start: `if self.thread is not None: ... return`
ThreadIdle == thread = "none"

\* start with nothing selected in the list: self.groups is filled by the
\* automatic scan, the list is not, and start returns after the warning
StartNoSelection ==
  /\ ThreadIdle
  /\ groupsLoaded' = TRUE
  /\ UNCHANGED <<thread, listed, nThreads, nStarted, pending>>
  /\ UNCHANGED <<runVars, loadVars, obsVars, parseVars>>

\* start while a task is running: the information box, nothing else
StartWhileRunning ==
  /\ ~ThreadIdle
  /\ UNCHANGED vars

\* start with n sources selected: a new QThread and a new Worker
Start(n) ==
  /\ ThreadIdle
  /\ listed
  /\ nStarted < MaxRuns
  /\ thread' = "running"
  /\ nThreads' = nThreads + 1
  /\ nStarted' = nStarted + 1
  /\ pending' = "none"
  /\ total_sources' = n /\ cancel' = FALSE /\ pc' = "run" /\ i' = 0
  /\ total' = 0 /\ idx' = 0 /\ files' = <<>> /\ records' = <<>> /\ j' = 0
  /\ stack' = <<>>
  /\ warnings' = 0 /\ prevProgress' = -1 /\ lastProgress' = -1
  /\ finishedCount' = 0 /\ errorCount' = 0 /\ written' = {}
  /\ cancelObserved' = FALSE /\ cancelAt' = -1
  /\ UNCHANGED <<listed, groupsLoaded, parseVars>>

\* MainWindow.cancel -> Worker.cancel
Cancel ==
  /\ thread = "running"
  /\ cancel' = TRUE
  /\ cancelAt' = IF cancelAt = -1 /\ pc \in {"collect", "stack"} THEN i
                 ELSE cancelAt
  /\ UNCHANGED <<uiVars, total_sources, pc, i, loadVars, parseVars>>
  /\ UNCHANGED <<warnings, prevProgress, lastProgress, finishedCount,
                 errorCount, written, cancelObserved>>

\* cleanup_thread
CleanupThread ==
  /\ nThreads' = IF thread = "running" THEN nThreads - 1 ELSE nThreads
  /\ thread' = "none"
  /\ pending' = "none"

\* on_finished, run in the UI thread when the queued signal arrives
OnFinished ==
  /\ pending = "finished"
  /\ CleanupThread
  /\ UNCHANGED <<listed, groupsLoaded, nStarted>>
  /\ UNCHANGED <<runVars, loadVars, obsVars, parseVars>>

\* on_error
OnError ==
  /\ pending = "error"
  /\ CleanupThread
  /\ UNCHANGED <<listed, groupsLoaded, nStarted>>
  /\ UNCHANGED <<runVars, loadVars, obsVars, parseVars>>

\* ------------------------------------------------------------ Worker.run
\* self.progress.emit(v)
Emit(v) ==
  /\ prevProgress' = lastProgress
  /\ lastProgress' = v

\* lines 75-76: self.progress.emit(100); self.finished.emit()
FinishRun ==
  /\ Emit(FullRange)
  /\ finishedCount' = finishedCount + 1
  /\ pending' = "finished"
  /\ pc' = "done"

\* lines 78-79: except Exception as e: self.error.emit(repr(e))
Raise ==
  /\ errorCount' = errorCount + 1
  /\ pending' = "error"
  /\ pc' = "done"

\* lines 38-41
RunEnter ==
  /\ thread = "running" /\ pc = "run"
  /\ IF total_sources = 0
     THEN /\ Raise
          /\ UNCHANGED <<i>>
     ELSE /\ pc' = "loop"
          /\ i' = 0
          /\ UNCHANGED <<pending, errorCount>>
  /\ UNCHANGED <<thread, listed, groupsLoaded, nThreads, nStarted>>
  /\ UNCHANGED <<total_sources, cancel, loadVars, parseVars>>
  /\ UNCHANGED <<warnings, prevProgress, lastProgress, finishedCount,
                 written, cancelObserved, cancelAt>>

\* the for loop is exhausted: lines 75-76
LoopExit ==
  /\ thread = "running" /\ pc = "loop"
  /\ i = total_sources
  /\ FinishRun
  /\ UNCHANGED <<thread, listed, groupsLoaded, nThreads, nStarted>>
  /\ UNCHANGED <<total_sources, cancel, i, loadVars, parseVars>>
  /\ UNCHANGED <<warnings, errorCount, written, cancelObserved, cancelAt>>

\* lines 44-46: if self.is_cancelled(): log; break -- and then lines 75-76
LoopCancelled ==
  /\ thread = "running" /\ pc = "loop"
  /\ i < total_sources
  /\ cancel
  /\ cancelObserved' = TRUE
  /\ FinishRun
  /\ UNCHANGED <<thread, listed, groupsLoaded, nThreads, nStarted>>
  /\ UNCHANGED <<total_sources, cancel, i, loadVars, parseVars>>
  /\ UNCHANGED <<warnings, errorCount, written, cancelAt>>

\* lines 48-58: files = self.groups.get(source, []) has n images; the call
\* of load_images_sorted_by_alpha begins (core.py:78-79)
GroupBegin(n) ==
  /\ thread = "running" /\ pc = "loop"
  /\ i < total_sources
  /\ ~cancel
  /\ total' = n /\ idx' = 0 /\ files' = <<>> /\ records' = <<>>
  /\ j' = 0 /\ stack' = <<>>
  /\ warnings' = 0
  /\ pc' = "collect"
  /\ UNCHANGED <<uiVars, total_sources, cancel, i, parseVars>>
  /\ UNCHANGED <<prevProgress, lastProgress, finishedCount, errorCount,
                 written, cancelObserved, cancelAt>>

\* ------------------------------------- load_images_sorted_by_alpha, loop 1
\* core.py:82-83
CollectCancelled ==
  /\ thread = "running" /\ pc = "collect"
  /\ idx < total
  /\ cancel
  /\ cancelObserved' = TRUE
  /\ pc' = "retNone"
  /\ UNCHANGED <<uiVars, total_sources, cancel, i, loadVars, parseVars>>
  /\ UNCHANGED <<warnings, prevProgress, lastProgress, finishedCount,
                 errorCount, written, cancelAt>>

\* an unmatched image that is recorded all the same, with no warning
CollectNoEmd_Records ==
  /\ thread = "running" /\ pc = "collect"
  /\ idx < total
  /\ ~cancel
  /\ files' = Append(files, NoEmd)
  /\ records' = Append(records, <<0, idx>>)
  /\ idx' = idx + 1
  /\ UNCHANGED <<uiVars, runVars, total, j, stack, parseVars>>
  /\ UNCHANGED obsVars

\* core.py:85-88: find_matching_emd returns None
CollectNoEmd ==
  /\ thread = "running" /\ pc = "collect"
  /\ idx < total
  /\ ~cancel
  /\ files' = Append(files, NoEmd)
  /\ warnings' = warnings + 1
  /\ idx' = idx + 1
  /\ UNCHANGED <<uiVars, runVars, total, records, j, stack, parseVars>>
  /\ UNCHANGED <<prevProgress, lastProgress, finishedCount, errorCount,
                 written, cancelObserved, cancelAt>>

\* core.py:90 with core.py:34: h5py.File(emd_path, "r") raises on a file that
\* exists and is no readable container; nothing between there and
\* GUI.py:78 catches it
CollectOpenFails ==
  /\ thread = "running" /\ pc = "collect"
  /\ idx < total
  /\ ~cancel
  /\ files' = Append(files, Unopenable)
  /\ Raise
  /\ UNCHANGED <<thread, listed, groupsLoaded, nThreads, nStarted>>
  /\ UNCHANGED <<total_sources, cancel, i, parseVars>>
  /\ UNCHANGED <<total, idx, records, j, stack>>
  /\ UNCHANGED <<warnings, prevProgress, lastProgress, finishedCount,
                 written, cancelObserved, cancelAt>>

\* core.py:90-93: extract_alpha_tilt_from_emd returns None
CollectNoAngle ==
  /\ thread = "running" /\ pc = "collect"
  /\ idx < total
  /\ ~cancel
  /\ files' = Append(files, NoAngle)
  /\ warnings' = warnings + 1
  /\ idx' = idx + 1
  /\ UNCHANGED <<uiVars, runVars, total, records, j, stack, parseVars>>
  /\ UNCHANGED <<prevProgress, lastProgress, finishedCount, errorCount,
                 written, cancelObserved, cancelAt>>

\* core.py:95-98: the angle is a; record it and report progress
CollectRecord(a) ==
  /\ thread = "running" /\ pc = "collect"
  /\ idx < total
  /\ ~cancel
  /\ files' = Append(files, Matched(a))
  /\ records' = Append(records, <<a, idx>>)
  /\ Emit(GlobalProgress(CollectPercent(idx, total)))
  /\ idx' = idx + 1
  /\ UNCHANGED <<uiVars, runVars, total, j, stack, parseVars>>
  /\ UNCHANGED <<warnings, finishedCount, errorCount, written,
                 cancelObserved, cancelAt>>

\* no check for an empty record list: np.stack([]) raises
CollectEmpty_Raises ==
  /\ thread = "running" /\ pc = "collect"
  /\ idx = total
  /\ records = <<>>
  /\ Raise
  /\ UNCHANGED <<thread, listed, groupsLoaded, nThreads, nStarted>>
  /\ UNCHANGED <<total_sources, cancel, i, loadVars, parseVars>>
  /\ UNCHANGED <<warnings, prevProgress, lastProgress, finishedCount,
                 written, cancelObserved, cancelAt>>

\* core.py:100-101: if not records: return None
CollectEmpty ==
  /\ thread = "running" /\ pc = "collect"
  /\ idx = total
  /\ records = <<>>
  /\ pc' = "retNone"
  /\ UNCHANGED <<uiVars, total_sources, cancel, i, loadVars, parseVars>>
  /\ UNCHANGED obsVars

\* core.py:103-105
SortRecords ==
  /\ thread = "running" /\ pc = "collect"
  /\ idx = total
  /\ records # <<>>
  /\ records' = SortByAlpha(records)
  /\ stack' = <<>>
  /\ j' = 0
  /\ pc' = "stack"
  /\ UNCHANGED <<uiVars, total_sources, cancel, i, parseVars>>
  /\ UNCHANGED <<total, idx, files>>
  /\ UNCHANGED obsVars

\* ------------------------------------- load_images_sorted_by_alpha, loop 2
\* core.py:107-108
StackCancelled ==
  /\ thread = "running" /\ pc = "stack"
  /\ j < Len(records)
  /\ cancel
  /\ cancelObserved' = TRUE
  /\ pc' = "retNone"
  /\ UNCHANGED <<uiVars, total_sources, cancel, i, loadVars, parseVars>>
  /\ UNCHANGED <<warnings, prevProgress, lastProgress, finishedCount,
                 errorCount, written, cancelAt>>

\* core.py:110-115
StackDecode ==
  /\ thread = "running" /\ pc = "stack"
  /\ j < Len(records)
  /\ ~cancel
  /\ stack' = Append(stack, records[j + 1][2])
  /\ Emit(GlobalProgress(StackPercent(j, Len(records))))
  /\ j' = j + 1
  /\ UNCHANGED <<uiVars, runVars, total, idx, files, records, parseVars>>
  /\ UNCHANGED <<warnings, finishedCount, errorCount, written,
                 cancelObserved, cancelAt>>

\* a decode failure caught inside the for loop: the error is emitted and the
\* run goes on with the next source
StackDecodeFails_Continues ==
  /\ thread = "running" /\ pc = "stack"
  /\ j < Len(records)
  /\ ~cancel
  /\ errorCount' = errorCount + 1
  /\ i' = i + 1
  /\ pc' = "loop"
  /\ UNCHANGED <<uiVars, total_sources, cancel, loadVars, parseVars>>
  /\ UNCHANGED <<warnings, prevProgress, lastProgress, finishedCount,
                 written, cancelObserved, cancelAt>>

\* core.py:110: Image.open(...).convert("F") raises; not caught before
\* GUI.py:78
StackDecodeFails ==
  /\ thread = "running" /\ pc = "stack"
  /\ j < Len(records)
  /\ ~cancel
  /\ Raise
  /\ UNCHANGED <<thread, listed, groupsLoaded, nThreads, nStarted>>
  /\ UNCHANGED <<total_sources, cancel, i, loadVars, parseVars>>
  /\ UNCHANGED <<warnings, prevProgress, lastProgress, finishedCount,
                 written, cancelObserved, cancelAt>>

\* core.py:117: return np.stack(stack, axis=0)
StackEnd ==
  /\ thread = "running" /\ pc = "stack"
  /\ j = Len(records)
  /\ pc' = "retStack"
  /\ UNCHANGED <<uiVars, total_sources, cancel, i, loadVars, parseVars>>
  /\ UNCHANGED obsVars

\* core.py:117: np.stack raises when the decoded images differ in shape
StackShapeMismatch ==
  /\ thread = "running" /\ pc = "stack"
  /\ j = Len(records)
  /\ Len(stack) >= 2
  /\ Raise
  /\ UNCHANGED <<thread, listed, groupsLoaded, nThreads, nStarted>>
  /\ UNCHANGED <<total_sources, cancel, i, loadVars, parseVars>>
  /\ UNCHANGED <<warnings, prevProgress, lastProgress, finishedCount,
                 written, cancelObserved, cancelAt>>

\* ------------------------------------------------- Worker.run, after load
\* GUI.py:66-68: if stack is None: log; continue
SkipInvalid ==
  /\ thread = "running" /\ pc = "retNone"
  /\ i' = i + 1
  /\ pc' = "loop"
  /\ UNCHANGED <<uiVars, total_sources, cancel, loadVars, parseVars>>
  /\ UNCHANGED obsVars

\* GUI.py:70-73: core.write_mrc(stack, out_path)
WriteMrc ==
  /\ thread = "running" /\ pc = "retStack"
  /\ written' = written \cup {i}
  /\ i' = i + 1
  /\ pc' = "loop"
  /\ UNCHANGED <<uiVars, total_sources, cancel, loadVars, parseVars>>
  /\ UNCHANGED <<warnings, prevProgress, lastProgress, finishedCount,
                 errorCount, cancelObserved, cancelAt>>

\* ------------------------------------------- extract_alpha_tilt_from_emd
\* Text is a sequence of one-character strings.  MINUS is U+2212, the
\* second character of the pattern's group in core.py:28; "-" is U+002D.
MINUS == "u2212"
Digits == {"1", "5"}
ValChars == Digits \cup {"-", MINUS, "."}

KeyCamel == <<"a", "l", "p", "h", "a", "T", "i", "l", "t">>
KeyPascal == <<"A", "l", "p", "h", "a", "T", "i", "l", "t">>
KeyUpper == <<"A", "L", "P", "H", "A", "T", "I", "L", "T">>
KeyOther == <<"b", "e", "t", "a", "T", "i", "l", "t">>
Keys == {KeyCamel, KeyPascal, KeyUpper, KeyOther}

\* the pattern's literal, core.py:28
PatternKey == <<"a", "l", "p", "h", "a", "t", "i", "l", "t">>

\* re.IGNORECASE on the letters that occur
Lower(c) ==
  CASE c = "A" -> "a" [] c = "B" -> "b" [] c = "E" -> "e" [] c = "H" -> "h"
    [] c = "I" -> "i" [] c = "L" -> "l" [] c = "P" -> "p" [] c = "T" -> "t"
    [] OTHER -> c

Spaces(n) == [k \in 1..n |-> " "]

\* the decoded payload of a node: "<key>"<sp1>:<sp2>["]<val>["]
TextOf(nd) ==
  <<"\"">> \o nd.key \o <<"\"">> \o Spaces(nd.sp1) \o <<":">> \o Spaces(nd.sp2)
    \o (IF nd.quoted THEN <<"\"">> ELSE <<>>) \o nd.val
    \o (IF nd.quoted THEN <<"\"">> ELSE <<>>)

At(t, p) == IF p >= 1 /\ p <= Len(t) THEN t[p] ELSE "EOT"

\* \s* from position p: the first position that holds no white space
RECURSIVE SkipSpace(_, _)
SkipSpace(t, p) == IF At(t, p) = " " THEN SkipSpace(t, p + 1) ELSE p

\* \d* from position p: the first position that holds no digit
RECURSIVE SkipDigits(_, _)
SkipDigits(t, p) == IF At(t, p) \in Digits THEN SkipDigits(t, p + 1) ELSE p

\* "alphatilt" (ignoring case) between quotes at position p
KeyAt(t, p) ==
  /\ At(t, p) = "\""
  /\ \A k \in 1..Len(PatternKey) : Lower(At(t, p + k)) = PatternKey[k]
  /\ At(t, p + Len(PatternKey) + 1) = "\""

(* The pattern tried at position p:                                        *)
(*   "alphatilt" \s* : \s* "? ( U+2212? -? \d+ \.? \d* ) "?                *)
(* Every quantifier is greedy and none can give back a character that a    *)
(* later element could use, so one left-to-right pass decides the match.   *)
(* The result is <<matched, group>>.                                       *)
MatchAt(t, p) ==
  LET c == SkipSpace(t, p + Len(PatternKey) + 2)
      v == SkipSpace(t, c + 1)
      g == IF At(t, v) = "\"" THEN v + 1 ELSE v
      m1 == IF At(t, g) = MINUS THEN g + 1 ELSE g
      m2 == IF At(t, m1) = "-" THEN m1 + 1 ELSE m1
      d1 == SkipDigits(t, m2)
      dot == IF At(t, d1) = "." THEN d1 + 1 ELSE d1
      d2 == SkipDigits(t, dot)
  IN  IF KeyAt(t, p) /\ At(t, c) = ":" /\ d1 > m2
      THEN <<TRUE, SubSeq(t, g, d2 - 1)>>
      ELSE <<FALSE, <<>>>>

\* re.search: the leftmost position where the pattern matches
Search(t) ==
  LET hits == {p \in 1..Len(t) : MatchAt(t, p)[1]}
  IN  IF hits = {} THEN <<FALSE, <<>>>>
      ELSE MatchAt(t, CHOOSE p \in hits : \A q \in hits : p <= q)

DigitVal(c) == IF c = "5" THEN 5 ELSE 1

\* the digits of s read as a decimal integer, "." skipped
RECURSIVE DigitsValue(_)
DigitsValue(s) ==
  IF s = <<>> THEN 0
  ELSE IF s[Len(s)] \in Digits
       THEN 10 * DigitsValue(SubSeq(s, 1, Len(s) - 1)) + DigitVal(s[Len(s)])
       ELSE DigitsValue(SubSeq(s, 1, Len(s) - 1))

\* digits after the "." of s
FractionDigits(s) ==
  IF \E k \in 1..Len(s) : s[k] = "."
  THEN Len(s) - (CHOOSE k \in 1..Len(s) : s[k] = ".")
  ELSE 0

(* float(g) for a group g the pattern matched.  float() takes an ASCII     *)
(* sign, digits and an optional fraction; U+2212 is no sign to it and      *)
(* raises ValueError.  The value is num / 10^scale.                        *)
FloatRaises(g) == \E k \in 1..Len(g) : g[k] = MINUS

PyFloat(g) ==
  [found |-> TRUE,
   num |-> (IF g[1] = "-" THEN -1 ELSE 1) * DigitsValue(g),
   scale |-> FractionDigits(g)]

\* visitor(name, obj), core.py:14-32, with cur the nonlocal alpha_tilt
Visitor(nd, cur) ==
  IF cur.found THEN cur
  ELSE IF ~nd.dataset THEN cur
  ELSE IF ~nd.meta THEN cur
  ELSE LET m == Search(TextOf(nd))
       IN  IF m[1]
           THEN (IF FloatRaises(m[2]) THEN cur ELSE PyFloat(m[2]))
           ELSE cur

RECURSIVE Strings(_)
Strings(n) ==
  IF n = 0 THEN {<<>>}
  ELSE LET shorter == Strings(n - 1)
       IN  shorter \cup {Append(s, c) : s \in shorter, c \in ValChars}

Nodes ==
  [dataset : BOOLEAN, meta : BOOLEAN, key : Keys, sp1 : 0..MaxSpaces,
   sp2 : 0..MaxSpaces, quoted : BOOLEAN, val : Strings(MaxValLen)]

InitParse ==
  /\ thread = "none" /\ listed = FALSE /\ groupsLoaded = FALSE
  /\ nThreads = 0 /\ nStarted = 0 /\ pending = "none"
  /\ IdleRun
  /\ node \in Nodes /\ alpha_tilt = NoAlpha /\ visited = FALSE

\* f.visititems(visitor) on a container holding the one node
VisitNode ==
  /\ ~visited
  /\ node \in Nodes
  /\ alpha_tilt' = Visitor(node, alpha_tilt)
  /\ visited' = TRUE
  /\ UNCHANGED <<node, uiVars, runVars, loadVars, obsVars>>

\* ------------------------------------------------------------ properties
\* images of the current call, by their index in image_files
MatchedIdx == {k \in 0..(Len(files) - 1) : files[k + 1].kind = "matched"}
SkippedIdx ==
  {k \in 0..(Len(files) - 1) : files[k + 1].kind \in {"noemd", "noangle"}}
AngleOf(k) == files[k + 1].alpha
Slices == {stack[k] : k \in 1..Len(stack)}

\* C1: a returned volume holds the matched images in ascending order of
\* their angles, and images of equal angle in their input order.
C1_SortedStable ==
  pc = "retStack" =>
    /\ Slices = MatchedIdx
    /\ \A k, l \in 1..Len(stack) :
         k < l => \/ AngleOf(stack[k]) < AngleOf(stack[l])
                  \/ /\ AngleOf(stack[k]) = AngleOf(stack[l])
                     /\ stack[k] < stack[l]

\* C1 witness: three slices, two of equal angle, the first input image not
\* first in the volume.
C1_Witness ==
  /\ pc = "retStack"
  /\ Len(stack) = 3
  /\ stack[1] # 0
  /\ \E k, l \in 1..3 : k < l /\ AngleOf(stack[k]) = AngleOf(stack[l])

\* C2: once a poll has seen the cancel flag, the run emits neither finished
\* nor error.
C2_CancelledRunIsSilent ==
  cancelObserved => finishedCount = 0 /\ errorCount = 0

\* C3: cancel() called while load_images_sorted_by_alpha runs for a source:
\* the call returns no volume and no file is written for that source or a
\* later one.
C3_CancelDuringLoadWritesNothing ==
  cancelAt >= 0 =>
    /\ ~(pc = "retStack" /\ i = cancelAt)
    /\ \A k \in written : k < cancelAt

\* C4: an image whose container exists and cannot be opened is skipped: no
\* error signal, and the run goes on.
C4_OpenFailureIsSkipped ==
  (\E k \in 1..Len(files) : files[k] = Unopenable) =>
    errorCount = 0 /\ pc # "done"

\* C5: in a call that has not been cancelled each unmatched image has caused
\* exactly one warning, and a returned volume has one slice per matched
\* image, none twice, none of a skipped image.
C5_SkipsAndSliceCount ==
  /\ (pc \in {"collect", "stack", "retStack"} \/ (pc = "retNone" /\ ~cancelObserved))
       => warnings = Cardinality(SkippedIdx)
  /\ pc = "retStack" =>
       /\ Len(files) = total
       /\ Len(stack) = Cardinality(MatchedIdx)
       /\ Cardinality(Slices) = Len(stack)
       /\ Slices \cap SkippedIdx = {}
       /\ Len(stack) = total - warnings

\* C5 witness: three images, one skipped, a volume of two slices.
C5_Witness ==
  /\ pc = "retStack"
  /\ total = 3
  /\ warnings = 1
  /\ Len(stack) = 2

\* C6: a source with no record returns no volume without an error, the run
\* moves on to the next source with no file written for it, and a source that
\* does return a volume has its file written.
C6_EmptyGroupSkipped ==
  /\ [](\A k \in written : k < i)
  /\ [][(pc = "collect" /\ idx = total /\ records = <<>> /\ pc' # pc)
          => /\ pc' = "retNone"
             /\ UNCHANGED <<written, errorCount, finishedCount, i>>]_vars
  /\ [][(pc = "retNone" /\ pc' # pc)
          => /\ pc' = "loop" /\ i' = i + 1
             /\ UNCHANGED <<written, errorCount, finishedCount,
                            total_sources>>]_vars
  /\ [][(pc = "loop" /\ i < total_sources /\ ~cancel /\ pc' # pc)
          => pc' = "collect" /\ i' = i]_vars
  /\ [][(pc = "retStack" /\ pc' # pc)
          => pc' = "loop" /\ written' = written \cup {i}]_vars

\* C6 witness: the first source was empty, the second one has its file.
C6_Witness ==
  /\ pc = "loop"
  /\ i = 2
  /\ written = {1}
  /\ ~cancel
  /\ errorCount = 0

Unsigned(d) ==
  /\ d # <<>>
  /\ d[1] \in Digits
  /\ \A k \in 1..Len(d) : d[k] \in Digits \cup {"."}
  /\ Cardinality({k \in 1..Len(d) : d[k] = "."}) <= 1

C8_NegativeBothMinusForms ==
  (/\ visited
   /\ node.dataset /\ node.meta
   /\ node.key \in {KeyCamel, KeyPascal, KeyUpper}
   /\ Len(node.val) >= 2
   /\ node.val[1] \in {"-", MINUS}
   /\ Unsigned(Tail(node.val)))
  => alpha_tilt = [found |-> TRUE,
                   num |-> -DigitsValue(Tail(node.val)),
                   scale |-> FractionDigits(Tail(node.val))]

\* C9: at most one Worker thread exists at a time, and a Worker is created
\* only when no thread is left from the previous run.
C9_OneWorker ==
  /\ [](nThreads <= 1 /\ (thread = "none" <=> nThreads = 0))
  /\ [][nStarted' # nStarted
          => thread = "none" /\ nThreads = 0 /\ nThreads' = 1]_vars

\* C9 witness: a second run is under way, started after the first was
\* cleaned up.
C9_Witness ==
  /\ nStarted = 2
  /\ thread = "running"
  /\ pc = "collect"

\* C10: every progress value is in 0..100, no value is smaller than the one
\* emitted before it, and 100 is the last value when finished is emitted.
C10_ProgressMonotone ==
  /\ lastProgress <= FullRange
  /\ (lastProgress # -1 => lastProgress >= 0)
  /\ prevProgress <= lastProgress
  /\ finishedCount > 0 => lastProgress = FullRange

\* ------------------------------------------------------- specifications
WorkerStep ==
  \/ RunEnter
  \/ LoopExit
  \/ LoopCancelled
  \/ \E n \in 0..MaxFiles : GroupBegin(n)
  \/ CollectCancelled
  \/ CollectNoEmd
  \/ CollectOpenFails
  \/ CollectNoAngle
  \/ \E a \in Angles : CollectRecord(a)
  \/ CollectEmpty
  \/ SortRecords
  \/ StackCancelled
  \/ StackDecode
  \/ StackDecodeFails
  \/ StackEnd
  \/ StackShapeMismatch
  \/ SkipInvalid
  \/ WriteMrc

Next ==
  \/ Scan
  \/ StartNoSelection
  \/ StartWhileRunning
  \/ \E n \in 1..MaxSources : Start(n)
  \/ Cancel
  \/ OnFinished
  \/ OnError
  \/ WorkerStep

Spec == Init /\ [][Next]_vars

\* One run over ManySources selected sources, each with one to ManyFiles
\* images that all carry an angle and all decode.
NextMany ==
  \/ Scan
  \/ Start(ManySources)
  \/ RunEnter
  \/ LoopExit
  \/ \E n \in 1..ManyFiles : GroupBegin(n)
  \/ CollectRecord(0)
  \/ SortRecords
  \/ StackDecode
  \/ StackEnd
  \/ WriteMrc
  \/ OnFinished

SpecMany == Init /\ [][NextMany]_vars

NextParse == VisitNode

SpecParse == InitParse /\ [][NextParse]_vars

====
